---- MODULE Spec2Model ----
\* Model of the LC-3 execution engine of src/src/vm_spec.rs: init, tick,
\* tick_op, trap, set_cond_reg and the driver loop run.  Registers and memory
\* hold 16-bit words; memory is kept sparse (cells absent from the domain read
\* as 0) so that the full 64K address space is addressable.
EXTENDS Integers, Naturals, Sequences, FiniteSets, TLC

VARIABLES reg, mem, io, iolog, phase, ret, op, runRet, preReg, preMem, nticks

vars == <<reg, mem, io, iolog, phase, ret, op, runRet, preReg, preMem, nticks>>

\* ------------------------------------------------------------------ bounds
MaxTicks == 3

\* ------------------------------------------------------- program constants
WordMod == 65536
R0 == 0
R7 == 7
R_PC == 8
R_COND == 9
R_PC_INIT == 12288
COND_P == 1
COND_Z == 2
COND_N == 4

Registers == 0..9
GeneralRegs == 0..7

\* ------------------------------------------------------ word arithmetic
wrapping_add_sat(a, b) == IF a + b >= WordMod THEN WordMod - 1 ELSE a + b

wrapping_add(a, b) == (a + b) % WordMod

RECURSIVE BitAndN(_, _, _)
BitAndN(a, b, n) ==
    IF n = 0 THEN 0
    ELSE (IF a % 2 = 1 /\ b % 2 = 1 THEN 1 ELSE 0)
         + 2 * BitAndN(a \div 2, b \div 2, n - 1)

BitAnd(a, b) == BitAndN(a, b, 16)

BitNot(a) == (WordMod - 1) - a

\* ------------------------------------------- register / memory capability
read_reg(r, register) == r[register]

write_reg(r, register, value) == [r EXCEPT ![register] = value]

read_mem(m, address) == IF address \in DOMAIN m THEN m[address] ELSE 0

write_mem(m, address, value) ==
    [a \in (DOMAIN m) \cup {address} |-> IF a = address THEN value ELSE m[a]]

\* bytes of the zero-terminated run of words starting at address
RECURSIVE c_str_from(_, _, _)
c_str_from(m, address, fuel) ==
    IF fuel = 0 \/ read_mem(m, address) = 0 THEN << >>
    ELSE <<read_mem(m, address) % 256>>
         \o c_str_from(m, wrapping_add(address, 1), fuel - 1)

c_str(m, address) == c_str_from(m, address, Cardinality(DOMAIN m) + 1)

\* ----------------------------------------------------------------- decoder
sext(x, bits) ==
    IF x >= 2 ^ (bits - 1) THEN x + (WordMod - 2 ^ bits) ELSE x

bit(w, i) == (w \div (2 ^ i)) % 2 = 1

field(w, lo, width) == (w \div (2 ^ lo)) % (2 ^ width)

ParseError == [tag |-> "ParseError"]

parse_arg(w) ==
    IF bit(w, 5) THEN [kind |-> "Immediate", v |-> sext(field(w, 0, 5), 5)]
    ELSE [kind |-> "Register", v |-> field(w, 0, 3)]

parse(w) ==
    CASE field(w, 12, 4) = 0 ->
           [tag |-> "OpBr", n |-> bit(w, 11), z |-> bit(w, 10), p |-> bit(w, 9),
            pc_offset |-> sext(field(w, 0, 9), 9)]
      [] field(w, 12, 4) = 1 ->
           [tag |-> "OpAdd", dr |-> field(w, 9, 3), sr1 |-> field(w, 6, 3),
            arg |-> parse_arg(w)]
      [] field(w, 12, 4) = 2 ->
           [tag |-> "OpLd", dr |-> field(w, 9, 3),
            pc_offset |-> sext(field(w, 0, 9), 9)]
      [] field(w, 12, 4) = 3 ->
           [tag |-> "OpSt", sr |-> field(w, 9, 3),
            pc_offset |-> sext(field(w, 0, 9), 9)]
      [] field(w, 12, 4) = 4 ->
           IF bit(w, 11)
           THEN [tag |-> "OpJsr", pc_offset |-> sext(field(w, 0, 11), 11)]
           ELSE [tag |-> "OpJsrr", base_r |-> field(w, 6, 3)]
      [] field(w, 12, 4) = 5 ->
           [tag |-> "OpAnd", dr |-> field(w, 9, 3), sr1 |-> field(w, 6, 3),
            arg |-> parse_arg(w)]
      [] field(w, 12, 4) = 6 ->
           [tag |-> "OpLdr", dr |-> field(w, 9, 3), base_r |-> field(w, 6, 3),
            offset |-> sext(field(w, 0, 6), 6)]
      [] field(w, 12, 4) = 7 ->
           [tag |-> "OpStr", sr |-> field(w, 9, 3), base_r |-> field(w, 6, 3),
            offset |-> sext(field(w, 0, 6), 6)]
      [] field(w, 12, 4) = 8 -> [tag |-> "OpRti"]
      [] field(w, 12, 4) = 9 ->
           [tag |-> "OpNot", dr |-> field(w, 9, 3), sr |-> field(w, 6, 3)]
      [] field(w, 12, 4) = 10 ->
           [tag |-> "OpLdi", dr |-> field(w, 9, 3),
            pc_offset |-> sext(field(w, 0, 9), 9)]
      [] field(w, 12, 4) = 11 ->
           [tag |-> "OpSti", sr |-> field(w, 9, 3),
            pc_offset |-> sext(field(w, 0, 9), 9)]
      [] field(w, 12, 4) = 12 -> [tag |-> "OpJmp", base_r |-> field(w, 6, 3)]
      [] field(w, 12, 4) = 14 ->
           [tag |-> "OpLea", dr |-> field(w, 9, 3),
            pc_offset |-> sext(field(w, 0, 9), 9)]
      [] field(w, 12, 4) = 15 ->
           [tag |-> "OpTrap", trap_vector |-> field(w, 0, 8)]
      [] OTHER -> ParseError

\* ------------------------------------------------------------ I/O capability
\* The outcome of the (at most one) I/O call of a step is an input of the
\* step: either the call fails with an IoError, or it succeeds (and, for
\* getc, delivers the byte).
IoOk(b) == [ok |-> TRUE, byte |-> b]
IoErr == [ok |-> FALSE, byte |-> 0]
IoOutcomes == {IoErr, IoOk(65), IoOk(200)}

IoCall(call, bytes, ok) == [call |-> call, bytes |-> bytes, ok |-> ok]

\* Result of an effect: the new registers and memory, the return value
\* (Continue = Ok(true), Halted = Ok(false), Io = Err(IoError), Panic = the
\* process aborted) and the I/O calls made.
Eff(r, m, rv, calls) == [reg |-> r, mem |-> m, ret |-> rv, io |-> calls]

\* ------------------------------------------------------------ set_cond_reg
set_cond_reg_le(r, register) ==
    IF read_reg(r, register) = 0 THEN write_reg(r, R_COND, COND_Z)
    ELSE IF read_reg(r, register) <= 2 ^ 15 THEN write_reg(r, R_COND, COND_P)
    ELSE write_reg(r, R_COND, COND_N)

set_cond_reg(r, register) ==
    IF read_reg(r, register) = 0 THEN write_reg(r, R_COND, COND_Z)
    ELSE IF read_reg(r, register) < 2 ^ 15 THEN write_reg(r, R_COND, COND_P)
    ELSE write_reg(r, R_COND, COND_N)

\* -------------------------------------------------------------------- trap
trap_getc_err_clears_r0(r, m, x) ==
    IF x.ok
    THEN Eff(write_reg(r, R0, x.byte), m, "Continue",
             <<IoCall("getc", <<x.byte>>, TRUE)>>)
    ELSE Eff(write_reg(r, R0, 0), m, "Io", <<IoCall("getc", << >>, FALSE)>>)

trap_getc(r, m, x) ==
    IF x.ok
    THEN Eff(write_reg(r, R0, x.byte), m, "Continue",
             <<IoCall("getc", <<x.byte>>, TRUE)>>)
    ELSE Eff(r, m, "Io", <<IoCall("getc", << >>, FALSE)>>)

trap_out_retry(r, m, x) ==
    Eff(r, m, IF x.ok THEN "Continue" ELSE "Io",
        IF x.ok THEN <<IoCall("putc", <<read_reg(r, R0) % 256>>, TRUE)>>
        ELSE <<IoCall("putc", <<read_reg(r, R0) % 256>>, FALSE),
               IoCall("putc", <<read_reg(r, R0) % 256>>, FALSE)>>)

trap_out(r, m, x) ==
    Eff(r, m, IF x.ok THEN "Continue" ELSE "Io",
        <<IoCall("putc", <<read_reg(r, R0) % 256>>, x.ok)>>)

trap_puts_per_char(r, m, x) ==
    Eff(r, m, IF x.ok THEN "Continue" ELSE "Io",
        [i \in 1..Len(c_str(m, read_reg(r, R0))) |->
            IoCall("puts", <<c_str(m, read_reg(r, R0))[i]>>, x.ok)])

trap_puts(r, m, x) ==
    Eff(r, m, IF x.ok THEN "Continue" ELSE "Io",
        <<IoCall("puts", c_str(m, read_reg(r, R0)), x.ok)>>)

trap(r, m, trap_vector, x) ==
    CASE trap_vector = 32 -> trap_getc(r, m, x)
      [] trap_vector = 33 -> trap_out(r, m, x)
      [] trap_vector = 34 -> trap_puts(r, m, x)
      [] trap_vector = 37 -> Eff(r, m, "Halted", << >>)
      [] OTHER -> Eff(r, m, "Panic", << >>)

\* ----------------------------------------------------------------- tick_op
ArgValue(r, arg) ==
    IF arg.kind = "Register" THEN read_reg(r, arg.v) ELSE arg.v

OpAdd_sub(r, m, o) ==
    Eff(set_cond_reg(
            write_reg(r, o.dr,
                (read_reg(r, o.sr1) + WordMod - ArgValue(r, o.arg)) % WordMod),
            o.dr),
        m, "Continue", << >>)

OpAdd(r, m, o) ==
    Eff(set_cond_reg(
            write_reg(r, o.dr,
                wrapping_add(read_reg(r, o.sr1), ArgValue(r, o.arg))),
            o.dr),
        m, "Continue", << >>)

OpAnd(r, m, o) ==
    Eff(set_cond_reg(
            write_reg(r, o.dr, BitAnd(read_reg(r, o.sr1), ArgValue(r, o.arg))),
            o.dr),
        m, "Continue", << >>)

BrTaken_bare_always(cond, o) ==
    \/ ~o.n /\ ~o.z /\ ~o.p
    \/ o.n /\ BitAnd(COND_N, cond) # 0
    \/ o.z /\ BitAnd(COND_Z, cond) # 0
    \/ o.p /\ BitAnd(COND_P, cond) # 0

BrTaken(cond, o) ==
    \/ o.n /\ BitAnd(COND_N, cond) # 0
    \/ o.z /\ BitAnd(COND_Z, cond) # 0
    \/ o.p /\ BitAnd(COND_P, cond) # 0

OpBr(r, m, o) ==
    IF BrTaken(read_reg(r, R_COND), o)
    THEN Eff(write_reg(r, R_PC, wrapping_add(read_reg(r, R_PC), o.pc_offset)),
             m, "Continue", << >>)
    ELSE Eff(r, m, "Continue", << >>)

OpJmp(r, m, o) ==
    Eff(write_reg(r, R_PC, read_reg(r, o.base_r)), m, "Continue", << >>)

OpJsr_link_after(r, m, o) ==
    Eff(write_reg(write_reg(r, R_PC, wrapping_add(read_reg(r, R_PC), o.pc_offset)),
                  R7, wrapping_add(read_reg(r, R_PC), o.pc_offset)),
        m, "Continue", << >>)

OpJsr(r, m, o) ==
    LET r1 == write_reg(r, R7, read_reg(r, R_PC))
    IN  Eff(write_reg(r1, R_PC, wrapping_add(read_reg(r1, R_PC), o.pc_offset)),
            m, "Continue", << >>)

OpJsrr(r, m, o) ==
    LET r1 == write_reg(r, R7, read_reg(r, R_PC))
    IN  Eff(write_reg(r1, R_PC, read_reg(r1, o.base_r)), m, "Continue", << >>)

OpLd(r, m, o) ==
    Eff(set_cond_reg(
            write_reg(r, o.dr,
                read_mem(m, wrapping_add(read_reg(r, R_PC), o.pc_offset))),
            o.dr),
        m, "Continue", << >>)

OpLdi_single(r, m, o) ==
    Eff(set_cond_reg(
            write_reg(r, o.dr,
                read_mem(m, wrapping_add(read_reg(r, R_PC), o.pc_offset))),
            o.dr),
        m, "Continue", << >>)

OpLdi(r, m, o) ==
    LET address == read_mem(m, wrapping_add(read_reg(r, R_PC), o.pc_offset))
    IN  Eff(set_cond_reg(write_reg(r, o.dr, read_mem(m, address)), o.dr),
            m, "Continue", << >>)

OpLdr(r, m, o) ==
    Eff(set_cond_reg(
            write_reg(r, o.dr,
                read_mem(m, wrapping_add(read_reg(r, o.base_r), o.offset))),
            o.dr),
        m, "Continue", << >>)

OpLea(r, m, o) ==
    Eff(set_cond_reg(
            write_reg(r, o.dr, wrapping_add(read_reg(r, R_PC), o.pc_offset)),
            o.dr),
        m, "Continue", << >>)

OpNot(r, m, o) ==
    Eff(set_cond_reg(write_reg(r, o.dr, BitNot(read_reg(r, o.sr))), o.dr),
        m, "Continue", << >>)

OpRti_nop(r, m, o) == Eff(r, m, "Continue", << >>)

OpRti(r, m, o) == Eff(r, m, "Panic", << >>)

OpSt_sets_flags(r, m, o) ==
    Eff(set_cond_reg(r, o.sr),
        write_mem(m, wrapping_add(read_reg(r, R_PC), o.pc_offset),
                  read_reg(r, o.sr)),
        "Continue", << >>)

OpSt(r, m, o) ==
    Eff(r,
        write_mem(m, wrapping_add(read_reg(r, R_PC), o.pc_offset),
                  read_reg(r, o.sr)),
        "Continue", << >>)

OpSti_single(r, m, o) ==
    Eff(r,
        write_mem(m, wrapping_add(read_reg(r, R_PC), o.pc_offset),
                  read_reg(r, o.sr)),
        "Continue", << >>)

OpSti(r, m, o) ==
    LET address == read_mem(m, wrapping_add(read_reg(r, R_PC), o.pc_offset))
    IN  Eff(r, write_mem(m, address, read_reg(r, o.sr)), "Continue", << >>)

OpStr_two_cells(r, m, o) ==
    Eff(r,
        write_mem(
            write_mem(m, read_reg(r, o.base_r), read_reg(r, o.sr)),
            wrapping_add(read_reg(r, o.base_r), o.offset), read_reg(r, o.sr)),
        "Continue", << >>)

OpStr(r, m, o) ==
    Eff(r,
        write_mem(m, wrapping_add(read_reg(r, o.base_r), o.offset),
                  read_reg(r, o.sr)),
        "Continue", << >>)

OpTrap_no_link(r, m, o, x) == trap(r, m, o.trap_vector, x)

OpTrap(r, m, o, x) ==
    trap(write_reg(r, R7, read_reg(r, R_PC)), m, o.trap_vector, x)

tick_op(r, m, o, x) ==
    CASE o.tag = "OpAdd" -> OpAdd(r, m, o)
      [] o.tag = "OpAnd" -> OpAnd(r, m, o)
      [] o.tag = "OpBr" -> OpBr(r, m, o)
      [] o.tag = "OpJmp" -> OpJmp(r, m, o)
      [] o.tag = "OpJsr" -> OpJsr(r, m, o)
      [] o.tag = "OpJsrr" -> OpJsrr(r, m, o)
      [] o.tag = "OpLd" -> OpLd(r, m, o)
      [] o.tag = "OpLdi" -> OpLdi(r, m, o)
      [] o.tag = "OpLdr" -> OpLdr(r, m, o)
      [] o.tag = "OpLea" -> OpLea(r, m, o)
      [] o.tag = "OpNot" -> OpNot(r, m, o)
      [] o.tag = "OpRti" -> OpRti(r, m, o)
      [] o.tag = "OpSt" -> OpSt(r, m, o)
      [] o.tag = "OpSti" -> OpSti(r, m, o)
      [] o.tag = "OpStr" -> OpStr(r, m, o)
      [] o.tag = "OpTrap" -> OpTrap(r, m, o, x)

\* -------------------------------------------------------------------- tick
\* The step's result also carries the decoded operation.
TickRes(e, o) ==
    [reg |-> e.reg, mem |-> e.mem, ret |-> e.ret, io |-> e.io, op |-> o]

tick_inc_first(r, m, x) ==
    LET pc == read_reg(r, R_PC)
        o  == parse(read_mem(m, pc))
        r1 == write_reg(r, R_PC, wrapping_add(pc, 1))
    IN  IF o = ParseError
        THEN TickRes(Eff(r1, m, "Parse", << >>), o)
        ELSE TickRes(tick_op(r1, m, o, x), o)

tick_skip_undecodable(r, m, x) ==
    LET pc == read_reg(r, R_PC)
        o  == parse(read_mem(m, pc))
    IN  IF o = ParseError
        THEN TickRes(Eff(r, m, "Continue", << >>), o)
        ELSE TickRes(tick_op(write_reg(r, R_PC, wrapping_add(pc, 1)), m, o, x), o)

tick_inc_last(r, m, x) ==
    LET pc == read_reg(r, R_PC)
        o  == parse(read_mem(m, pc))
        e  == tick_op(r, m, o, x)
    IN  IF o = ParseError
        THEN TickRes(Eff(r, m, "Parse", << >>), o)
        ELSE TickRes(Eff(write_reg(e.reg, R_PC,
                                   wrapping_add(read_reg(e.reg, R_PC), 1)),
                         e.mem, e.ret, e.io), o)

tick(r, m, x) ==
    LET pc == read_reg(r, R_PC)
        o  == parse(read_mem(m, pc))
    IN  IF o = ParseError
        THEN TickRes(Eff(r, m, "Parse", << >>), o)
        ELSE TickRes(tick_op(write_reg(r, R_PC, wrapping_add(pc, 1)), m, o, x), o)

\* --------------------------------------------------------------------- run
\* What the driver loop does with the result of a tick: "none" loops again,
\* anything else is the value run returns ("aborted": the process panicked
\* and run never returns).
run_match_halt_loops(rv) ==
    CASE rv = "Continue" -> "none"
      [] rv = "Halted" -> "none"
      [] rv = "Parse" -> "Err(Parse)"
      [] rv = "Io" -> "Err(Io)"
      [] rv = "Panic" -> "aborted"

run_match(rv) ==
    CASE rv = "Continue" -> "none"
      [] rv = "Halted" -> "Ok"
      [] rv = "Parse" -> "Err(Parse)"
      [] rv = "Io" -> "Err(Io)"
      [] rv = "Panic" -> "aborted"

\* -------------------------------------------------------------------- init
init_pc_only(r) == write_reg(r, R_PC, R_PC_INIT)

init(r) == write_reg(write_reg(r, R_PC, R_PC_INIT), R_COND, COND_Z)

\* ------------------------------------------------------------------ inputs
\* Instruction words are built from their fields: opcode, then the 12 low bits.
Word(opcode, low) == opcode * 4096 + low

AddWords ==
    {Word(1, dr * 512 + s[1] * 64 + s[2]) :
        dr \in 0..7, s \in {<<1, 2>>, <<3, 2>>, <<4, 4>>, <<6, 2>>}}
    \cup {Word(1, dr * 512 + sr1 * 64 + 32 + imm) :
        dr \in {0, 7}, sr1 \in {1, 3}, imm \in {1, 16, 31}}

AndWords ==
    {Word(5, dr * 512 + s[1] * 64 + s[2]) :
        dr \in {0, 5}, s \in {<<3, 4>>, <<1, 2>>, <<6, 4>>}}
    \cup {Word(5, 3 * 64 + 32 + imm) : imm \in {0, 5, 31}}

NotWords == {Word(9, dr * 512 + sr * 64 + 63) : dr \in 0..7, sr \in {1, 3, 4}}

LdWords == {Word(2, dr * 512 + k) : dr \in 0..7, k \in {0, 1, 510}}

LdiWords == {Word(10, dr * 512 + k) : dr \in {0, 3, 7}, k \in {1, 510, 511}}

LdrWords ==
    {Word(6, dr * 512 + b * 64 + k) :
        dr \in {0, 5, 7}, b \in {3, 5}, k \in {0, 1, 3, 63}}

LeaWords == {Word(14, dr * 512 + k) : dr \in 0..7, k \in {1, 256, 511}}

StWords == {Word(3, sr * 512 + k) : sr \in {1, 4}, k \in {0, 1, 510}}

StiWords == {Word(11, sr * 512 + k) : sr \in {1, 4}, k \in {0, 1, 3, 510}}

StrWords ==
    {Word(7, sr * 512 + b * 64 + k) : sr \in {1, 2}, b \in {3, 5}, k \in {0, 1, 63}}

BrWords == {Word(0, nzp * 512 + k) : nzp \in 0..7, k \in {1, 2, 511}}

JumpWords ==
    {Word(12, b * 64) : b \in {3, 5, 7}}
    \cup {Word(4, 2048 + k) : k \in {1, 1024, 2047}}
    \cup {Word(4, b * 64) : b \in {3, 5, 7}}

TrapWords == {Word(15, v) : v \in {0, 32, 33, 34, 35, 37, 255}}

OtherWords == {Word(8, 0), Word(13, 0), Word(13, 4095)}

FirstWords ==
    AddWords \cup AndWords \cup NotWords \cup LdWords \cup LdiWords
    \cup LdrWords \cup LeaWords \cup StWords \cup StiWords \cup StrWords
    \cup BrWords \cup JumpWords \cup TrapWords \cup OtherWords

\* the word after the first: halt, BR n +2, BR p -3, an undecodable word,
\* PUTS, JSRR R7, NOT R1,R1, STI R1,+0, BR nz -2
SecondWords == {61477, 2050, 1021, 53248, 61474, 16832, 37503, 45568, 3582}

\* the word at 0xFFFF: ADD R0,R1,R2; LDI R0,+1; BR nzp -1; JSR +2
WrapWords == {4162, 40961, 4095, 18434}

\* register files R0..R7 the loader leaves behind
RegFiles ==
    {<<16384, 5, 7, 65535, 32768, 12290, 32767, 12293>>,
     <<321, 65535, 1, 0, 32767, 65534, 12293, 65535>>}

\* PC and COND before init
Garbage == {<<0, 0>>, <<4660, 7>>}

LoadedRegs(rf, g) ==
    [i \in Registers |-> IF i \in GeneralRegs THEN rf[i + 1] ELSE g[i - 7]]

\* 0x2FFF, 0x3002 and 0x3005 hold data, 0x4000.. the string "Hi" followed by
\* a terminator and one more word, 0x0000 the halt trap, 0x0001 a pointer,
\* 0x3004 a pointer to itself.
LoadedMem(w1, w2, ww) ==
    (12288 :> w1) @@ (12289 :> w2) @@ (65535 :> ww)
    @@ (12287 :> 32769) @@ (12290 :> 12293) @@ (12293 :> 31420)
    @@ (16384 :> 72) @@ (16385 :> 105) @@ (16386 :> 0) @@ (16387 :> 99)
    @@ (0 :> 61477) @@ (1 :> 12293) @@ (12292 :> 12292)

NoOp == [tag |-> "none"]

\* ----------------------------------------------------------- specification
Init ==
    /\ \E rf \in RegFiles, g \in Garbage : reg = LoadedRegs(rf, g)
    /\ \E w1 \in FirstWords, w2 \in SecondWords, ww \in WrapWords :
          mem = LoadedMem(w1, w2, ww)
    /\ io = << >>
    /\ iolog = << >>
    /\ phase = "new"
    /\ ret = "none"
    /\ op = NoOp
    /\ runRet = "none"
    /\ preReg = [i \in Registers |-> 0]
    /\ preMem = << >>
    /\ nticks = 0

CallInit ==
    /\ phase = "new"
    /\ reg' = init(reg)
    /\ phase' = "running"
    /\ UNCHANGED <<mem, io, iolog, ret, op, runRet, preReg, preMem, nticks>>

\* one iteration of the loop of run: a tick and the match on its result
run ==
    /\ phase = "running"
    /\ runRet = "none"
    /\ nticks < MaxTicks
    /\ \E x \in IoOutcomes :
          LET t == tick(reg, mem, x)
          IN  /\ reg' = t.reg
              /\ mem' = t.mem
              /\ io' = t.io
              /\ iolog' = iolog \o t.io
              /\ ret' = t.ret
              /\ op' = t.op
              /\ runRet' = run_match(t.ret)
              /\ phase' = IF run_match(t.ret) = "none" THEN "running"
                          ELSE IF run_match(t.ret) = "aborted" THEN "aborted"
                          ELSE "returned"
    /\ preReg' = reg
    /\ preMem' = mem
    /\ nticks' = nticks + 1

Next == CallInit \/ run

Spec == Init /\ [][Next]_vars

\* ================================================================== claims
\* The step just taken fetched at address A; preReg and preMem are the
\* registers and memory as they stood before it.
A == preReg[R_PC]

Ticked == nticks > 0

FlagOps == {"OpAdd", "OpAnd", "OpLd", "OpLdi", "OpLdr", "OpLea", "OpNot"}

PcRelOps == {"OpLd", "OpLdi", "OpLea", "OpSt", "OpSti", "OpBr", "OpJsr"}

\* (A + 1 + k) mod 65536, written without the model's adder
EffAddr(k) == (A + 1 + k) % 65536

\* every cell other than those of `except` reads as before the step
MemSameExcept(except) ==
    \A a \in ((DOMAIN mem) \cup (DOMAIN preMem)) \ except :
        read_mem(mem, a) = read_mem(preMem, a)

\* C1: after a tick that executed a flag-affecting instruction (ADD, AND,
\* LD, LDI, LDR, LEA, NOT) the condition register holds exactly one of N, Z,
\* P and it matches the value now in dr: 0 gives Z, 1..32767 gives P,
\* 32768..65535 gives N.
C1_FlagsMatchDr ==
    (Ticked /\ op.tag \in FlagOps) =>
        /\ op.dr \in GeneralRegs
        /\ reg[R_COND] \in {COND_N, COND_Z, COND_P}
        /\ (reg[op.dr] = 0 => reg[R_COND] = COND_Z)
        /\ (reg[op.dr] \in 1..32767 => reg[R_COND] = COND_P)
        /\ (reg[op.dr] \in 32768..65535 => reg[R_COND] = COND_N)

C1_Witness ==
    /\ Ticked
    /\ op.tag = "OpAnd"
    /\ reg[op.dr] = 32768
    /\ reg[R_COND] = COND_N

\* C2: a PC-relative instruction (LD, LDI, LEA, ST, STI, taken BR, JSR)
\* fetched at A with offset k uses the address (A+1+k) mod 65536: the load
\* reads that cell, LEA yields it, the store writes that cell (STI and LDI
\* take their pointer from it), the branch and the jump go there; the address
\* (A+k) mod 65536 is never the one produced.
C2_PcRelativeUsesIncrementedPc ==
    (Ticked /\ op.tag \in PcRelOps) =>
        LET ea == EffAddr(op.pc_offset)
        IN  CASE op.tag = "OpLd" -> reg[op.dr] = read_mem(preMem, ea)
              [] op.tag = "OpLdi" ->
                    reg[op.dr] = read_mem(preMem, read_mem(preMem, ea))
              [] op.tag = "OpLea" ->
                    reg[op.dr] = ea /\ reg[op.dr] # (A + op.pc_offset) % 65536
              [] op.tag = "OpSt" ->
                    /\ read_mem(mem, ea) = preReg[op.sr]
                    /\ MemSameExcept({ea})
              [] op.tag = "OpSti" ->
                    /\ read_mem(mem, read_mem(preMem, ea)) = preReg[op.sr]
                    /\ MemSameExcept({read_mem(preMem, ea)})
              [] op.tag = "OpBr" ->
                    BrTaken(preReg[R_COND], op) =>
                        /\ reg[R_PC] = ea
                        /\ reg[R_PC] # (A + op.pc_offset) % 65536
              [] op.tag = "OpJsr" ->
                    /\ reg[R_PC] = ea
                    /\ reg[R_PC] # (A + op.pc_offset) % 65536

C2_Witness ==
    /\ Ticked
    /\ op.tag = "OpLd"
    /\ op.pc_offset = 65534
    /\ A = 12288
    /\ reg[op.dr] = 32769
    /\ read_mem(preMem, 12286) # 32769

\* C3: after a tick that executed JSR or JSRR fetched at A, R7 = (A+1) mod
\* 65536, whatever the offset, the base register (R7 included) and the target.
C3_LinkIsReturnAddress ==
    (Ticked /\ op.tag \in {"OpJsr", "OpJsrr"}) =>
        /\ ret = "Continue"
        /\ reg[R7] = (A + 1) % 65536

C3_Witness ==
    /\ Ticked
    /\ op.tag = "OpJsrr"
    /\ op.base_r = R7
    /\ preReg[R7] # (A + 1) % 65536
    /\ reg[R7] = (A + 1) % 65536

\* C4: LDI dr,k fetched at A leaves in dr the word mem[mem[(A+1+k) mod 65536]]
\* of the memory as it stood before the step.
C4_LdiDoubleIndirection ==
    (Ticked /\ op.tag = "OpLdi") =>
        LET p == read_mem(preMem, EffAddr(op.pc_offset))
        IN  /\ ret = "Continue"
            /\ reg[op.dr] = read_mem(preMem, p)
            /\ mem = preMem

C4_Witness ==
    /\ Ticked
    /\ op.tag = "OpLdi"
    /\ read_mem(preMem, EffAddr(op.pc_offset)) = 12293
    /\ reg[op.dr] = 31420
    /\ reg[op.dr] # read_mem(preMem, EffAddr(op.pc_offset))

IsWord(v) == v \in 0..65535

\* C5: arithmetic never fails on overflow and wraps modulo 65536: a step that
\* decodes leaves PC = (A+1) mod 65536 unless it jumps (so 0 after a fetch at
\* 0xFFFF), ADD stores the sum mod 65536 and returns Continue, AND returns
\* Continue, LDR and STR address the cell (base_r + offset) mod 65536, the
\* PC-relative instructions return Continue, every register and memory cell
\* stays a 16-bit word at a 16-bit address, and only RTI and TRAP can abort
\* the process.
C5_ArithmeticWraps ==
    Ticked =>
        /\ \A i \in Registers : IsWord(reg[i])
        /\ \A a \in DOMAIN mem : IsWord(a) /\ IsWord(mem[a])
        /\ (ret = "Panic" => op.tag \in {"OpRti", "OpTrap"})
        /\ (op.tag \in {"OpAdd", "OpAnd"} => ret = "Continue")
        /\ (op.tag = "OpAdd" =>
                reg[op.dr] = (preReg[op.sr1] + ArgValue(preReg, op.arg)) % 65536)
        /\ (op.tag = "OpLdr" =>
                /\ ret = "Continue"
                /\ reg[op.dr] =
                      read_mem(preMem, (preReg[op.base_r] + op.offset) % 65536))
        /\ (op.tag = "OpStr" =>
                /\ ret = "Continue"
                /\ read_mem(mem, (preReg[op.base_r] + op.offset) % 65536)
                      = preReg[op.sr])
        /\ (op.tag \in PcRelOps => ret = "Continue")
        /\ ((ret # "Parse" /\ op.tag \notin {"OpBr", "OpJmp", "OpJsr", "OpJsrr"})
                => reg[R_PC] = (A + 1) % 65536)
        /\ ((op.tag = "OpBr" /\ ~BrTaken(preReg[R_COND], op))
                => reg[R_PC] = (A + 1) % 65536)

C5_Witness ==
    /\ Ticked
    /\ A = 65535
    /\ op.tag = "OpAdd"
    /\ preReg[op.sr1] + ArgValue(preReg, op.arg) > 65535
    /\ reg[op.dr] = preReg[op.sr1] + ArgValue(preReg, op.arg) - 65536
    /\ reg[R_PC] = 0
    /\ ret = "Continue"

\* the word the step fetched fails to decode
DecodeFailed == Ticked /\ parse(read_mem(preMem, A)) = ParseError

\* C6: when the word fetched at the PC fails to decode, tick returns the
\* decode error at once (run returns it, no I/O call is made) and the PC
\* still equals the address of the undecodable word; tick returns a decode
\* error in no other case.
C6_DecodeErrorLeavesPc ==
    /\ DecodeFailed =>
          /\ ret = "Parse"
          /\ runRet = "Err(Parse)"
          /\ io = << >>
          /\ reg[R_PC] = A
          /\ parse(read_mem(mem, reg[R_PC])) = ParseError
    /\ ret = "Parse" => DecodeFailed

C6_Witness ==
    /\ DecodeFailed
    /\ nticks = 2
    /\ ret = "Parse"
    /\ A = 12289
    /\ reg[R_PC] = 12289

\* C7 as stated: a word that decodes to no known opcode yields a decode
\* error, changes no register other than the PC and no memory cell, and
\* leaves PC = (A+1) mod 65536.
C7_Original ==
    DecodeFailed =>
        /\ ret = "Parse"
        /\ \A i \in Registers \ {R_PC} : reg[i] = preReg[i]
        /\ MemSameExcept({})
        /\ reg[R_PC] = (A + 1) % 65536

\* C7 amended: a word that decodes to no known opcode yields a decode error
\* and changes no register at all, the PC included (PC = A), and no memory
\* cell.
C7_UnknownOpcodeChangesNothing ==
    DecodeFailed =>
        /\ ret = "Parse"
        /\ \A i \in Registers : reg[i] = preReg[i]
        /\ MemSameExcept({})

C7_Witness ==
    /\ DecodeFailed
    /\ nticks = 1
    /\ read_mem(preMem, A) = 57343
    /\ ret = "Parse"
    /\ reg = preReg

\* C8: run loops while tick returns Continue, returns success exactly when a
\* tick returns Halted, returns the error of a tick at once and never ticks
\* after it returned; only TRAP 0x25 makes a tick return Halted.
C8_RunTermination ==
    /\ (ret = "Continue" => runRet = "none" /\ phase = "running")
    /\ (runRet = "Ok" <=> ret = "Halted")
    /\ (ret = "Halted" => op.tag = "OpTrap" /\ op.trap_vector = 37)
    /\ ((op.tag = "OpTrap" /\ op.trap_vector = 37) => ret = "Halted")
    /\ (runRet = "Err(Parse)" <=> ret = "Parse")
    /\ (runRet = "Err(Io)" <=> ret = "Io")
    /\ (runRet \in {"Ok", "Err(Parse)", "Err(Io)"} <=> phase = "returned")
    /\ (phase = "returned" => ~ENABLED run)

C8_Witness ==
    /\ nticks = 2
    /\ ret = "Halted"
    /\ runRet = "Ok"
    /\ phase = "returned"
    /\ op.tag = "OpTrap"
    /\ op.trap_vector = 37
    /\ A = 12289

\* the halt scenario: ADD R0,R1,R2 at 0x3000, TRAP 0x25 at 0x3001, R1 = 5,
\* R2 = 7, in the registers r and memory m
HaltScenario(r, m) ==
    /\ read_mem(m, 12288) = 4162
    /\ read_mem(m, 12289) = 61477
    /\ r[1] = 5
    /\ r[2] = 7

\* C9: in the halt scenario init leaves PC = 0x3000 and flags = Z; the first
\* tick returns Continue with R0 = 12, flags = P and PC = 0x3001; the second
\* tick returns Halted and run returns success.
C9_HaltScenario ==
    /\ (phase = "running" /\ nticks = 0) =>
          reg[R_PC] = 12288 /\ reg[R_COND] = COND_Z
    /\ (nticks = 1 /\ HaltScenario(preReg, preMem)) =>
          /\ ret = "Continue"
          /\ reg[R0] = 12
          /\ reg[R_COND] = COND_P
          /\ reg[R_PC] = 12289
          /\ HaltScenario(reg, mem)
    /\ (nticks = 2 /\ HaltScenario(preReg, preMem) /\ preReg[R0] = 12
            /\ preReg[R_PC] = 12289) =>
          /\ ret = "Halted"
          /\ runRet = "Ok"
          /\ phase = "returned"

C9_Witness ==
    /\ nticks = 2
    /\ HaltScenario(reg, mem)
    /\ reg[R0] = 12
    /\ preReg[R_COND] = COND_P
    /\ A = 12289
    /\ ret = "Halted"
    /\ runRet = "Ok"

\* the step executed the PUTS trap
PutsExecuted == Ticked /\ op.tag = "OpTrap" /\ op.trap_vector = 34

\* C10: the PUTS trap with R0 = a makes one write, of the low bytes of
\* mem[a], mem[a+1], ... up to but not including the first zero word
\* ([72,105,0,99] at a gives the two bytes 72,105), and returns Continue
\* when the write succeeds.
C10_PutsUpToTerminator ==
    PutsExecuted =>
        /\ Len(io) = 1
        /\ io[1].call = "puts"
        /\ LET b == io[1].bytes
               a == preReg[R0]
           IN  /\ \A i \in 1..Len(b) :
                     /\ read_mem(preMem, (a + i - 1) % 65536) # 0
                     /\ b[i] = read_mem(preMem, (a + i - 1) % 65536) % 256
               /\ read_mem(preMem, (a + Len(b)) % 65536) = 0
               /\ ( /\ read_mem(preMem, a) = 72
                    /\ read_mem(preMem, (a + 1) % 65536) = 105
                    /\ read_mem(preMem, (a + 2) % 65536) = 0
                    /\ read_mem(preMem, (a + 3) % 65536) = 99 ) => b = <<72, 105>>
        /\ (io[1].ok <=> ret = "Continue")
        /\ (~io[1].ok <=> ret = "Io")
        /\ iolog[Len(iolog)] = io[1]

C10_Witness ==
    /\ PutsExecuted
    /\ preReg[R0] = 16384
    /\ read_mem(preMem, 16387) = 99
    /\ io = <<IoCall("puts", <<72, 105>>, TRUE)>>
    /\ ret = "Continue"

\* C11: in every state after init, whatever ticks have run, the condition
\* register holds exactly one of N, Z, P; init itself leaves Z.
C11_FlagsOneHot ==
    /\ phase # "new" => reg[R_COND] \in {COND_N, COND_Z, COND_P}
    /\ (phase = "running" /\ nticks = 0) => reg[R_COND] = COND_Z

C11_Witness ==
    /\ nticks = 2
    /\ ret = "Continue"
    /\ op.tag = "OpNot"
    /\ preReg[R_COND] = COND_P
    /\ reg[R_COND] = COND_N

\* the step executed RTI or a TRAP with an unsupported vector
Unsupported ==
    /\ Ticked
    /\ \/ op.tag = "OpRti"
       \/ op.tag = "OpTrap" /\ op.trap_vector \notin {32, 33, 34, 37}

\* C12: a tick that executes RTI, or TRAP with a vector other than 0x20,
\* 0x21, 0x22, 0x25, aborts the process: it returns neither Continue, nor
\* Halted, nor a TickError, run returns nothing and nothing runs afterwards;
\* no other step aborts.
C12_UnsupportedAborts ==
    /\ Unsupported =>
          /\ ret = "Panic"
          /\ ret \notin {"Continue", "Halted", "Parse", "Io"}
          /\ runRet \notin {"Ok", "Err(Parse)", "Err(Io)"}
          /\ phase = "aborted"
          /\ io = << >>
    /\ (ret = "Panic" \/ phase = "aborted") => Unsupported
    /\ phase = "aborted" => ~ENABLED Next

C12_Witness ==
    /\ Unsupported
    /\ op.tag = "OpTrap"
    /\ op.trap_vector = 35
    /\ ret = "Panic"
    /\ phase = "aborted"
    /\ reg[R7] = (A + 1) % 65536

\* the step made an I/O call that failed
IoFailed == Ticked /\ \E i \in 1..Len(io) : ~io[i].ok

\* C13: when the I/O call of a GETC, OUT or PUTS trap fails, tick returns the
\* I/O error, run returns it and executes nothing more, and the failed call
\* was made exactly once: it is the only call of the step and the last call
\* of the whole run.
C13_IoErrorPropagates ==
    /\ IoFailed =>
          /\ ret = "Io"
          /\ runRet = "Err(Io)"
          /\ phase = "returned"
          /\ Len(io) = 1
          /\ op.tag = "OpTrap"
          /\ op.trap_vector \in {32, 33, 34}
          /\ ~ENABLED Next
    /\ ret = "Io" => IoFailed
    /\ \A i \in 1..Len(iolog) : ~iolog[i].ok => i = Len(iolog)

C13_Witness ==
    /\ IoFailed
    /\ nticks = 2
    /\ Len(iolog) = 2
    /\ iolog[1].ok
    /\ iolog[1].call = "putc"
    /\ iolog[2] = IoCall("puts", <<72, 105>>, FALSE)
    /\ ret = "Io"
    /\ runRet = "Err(Io)"

NoFlagOps == {"OpBr", "OpJmp", "OpJsr", "OpJsrr", "OpSt", "OpSti", "OpStr"}

\* C14: a tick that executes BR, JMP, JSR, JSRR, ST, STI or STR leaves the
\* condition register as it was, whatever the operands and the prior flags.
C14_NoFlagUpdate ==
    (Ticked /\ op.tag \in NoFlagOps) =>
        /\ ret = "Continue"
        /\ reg[R_COND] = preReg[R_COND]

C14_Witness ==
    /\ nticks = 2
    /\ op.tag = "OpSti"
    /\ preReg[op.sr] = 5
    /\ preReg[R_COND] = COND_N
    /\ reg[R_COND] = COND_N
    /\ mem # preMem

\* the branch condition of BR on the flags before the step
BrSelected ==
    \/ op.n /\ preReg[R_COND] = COND_N
    \/ op.z /\ preReg[R_COND] = COND_Z
    \/ op.p /\ preReg[R_COND] = COND_P

\* C15: BR n,z,p,k fetched at A leaves PC = (A+1+k) mod 65536 when (n and N)
\* or (z and Z) or (p and P), and PC = (A+1) mod 65536 otherwise (always so
\* when n = z = p = false); no other register and no memory cell changes.
C15_BranchSemantics ==
    (Ticked /\ op.tag = "OpBr") =>
        /\ ret = "Continue"
        /\ reg[R_PC] = IF BrSelected THEN EffAddr(op.pc_offset)
                       ELSE (A + 1) % 65536
        /\ (~op.n /\ ~op.z /\ ~op.p) => reg[R_PC] = (A + 1) % 65536
        /\ \A i \in Registers \ {R_PC} : reg[i] = preReg[i]
        /\ MemSameExcept({})

C15_Witness ==
    /\ nticks = 2
    /\ op.tag = "OpBr"
    /\ op.n
    /\ ~op.p
    /\ preReg[R_COND] = COND_N
    /\ op.pc_offset = 65534
    /\ reg[R_PC] = 12288

\* C16: JSRR base_r leaves in the PC the value base_r held before the
\* instruction executed, for every base register R0..R7, R7 included.
C16_JsrrJumpsToBase ==
    (Ticked /\ op.tag = "OpJsrr") => reg[R_PC] = preReg[op.base_r]

\* C17: STI sr,k fetched at A writes the value of sr to the cell p =
\* mem[(A+1+k) mod 65536] (read before the write); every other cell (the
\* pointer cell too, unless it points to itself) and every register other
\* than the PC is unchanged.
C17_StiFrame ==
    (Ticked /\ op.tag = "OpSti") =>
        LET ea == EffAddr(op.pc_offset)
            p  == read_mem(preMem, ea)
        IN  /\ ret = "Continue"
            /\ read_mem(mem, p) = preReg[op.sr]
            /\ MemSameExcept({p})
            /\ (p # ea => read_mem(mem, ea) = p)
            /\ \A i \in Registers \ {R_PC} : reg[i] = preReg[i]
            /\ reg[R_PC] = (A + 1) % 65536

C17_Witness ==
    /\ Ticked
    /\ op.tag = "OpSti"
    /\ read_mem(preMem, EffAddr(op.pc_offset)) = 12293
    /\ read_mem(preMem, 12293) = 31420
    /\ read_mem(mem, 12293) = preReg[op.sr]
    /\ read_mem(mem, 12293) # 31420
    /\ read_mem(mem, EffAddr(op.pc_offset)) = 12293

\* the step executed the halt trap
HaltExecuted == Ticked /\ op.tag = "OpTrap" /\ op.trap_vector = 37

\* C18: a tick that executes TRAP 0x25 at A returns Halted and changes only
\* the TRAP linkage: R7 = PC = (A+1) mod 65536; R0..R6, the flags, memory and
\* the I/O streams are unchanged.
C18_HaltFrame ==
    HaltExecuted =>
        /\ ret = "Halted"
        /\ reg[R7] = (A + 1) % 65536
        /\ reg[R_PC] = (A + 1) % 65536
        /\ \A i \in (0..6) \cup {R_COND} : reg[i] = preReg[i]
        /\ MemSameExcept({})
        /\ io = << >>

C18_Witness ==
    /\ HaltExecuted
    /\ nticks = 2
    /\ A = 12289
    /\ preReg[R7] = 12289
    /\ reg[R7] = 12290
    /\ Len(iolog) = 1
    /\ iolog[1].call = "putc"
    /\ ret = "Halted"

StoreOps == {"OpSt", "OpSti", "OpStr"}

\* the cells whose content the step changed
ChangedCells ==
    {a \in (DOMAIN mem) \cup (DOMAIN preMem) :
        read_mem(mem, a) # read_mem(preMem, a)}

\* C19: a tick that executes anything other than ST, STI or STR (traps and
\* failing steps included) leaves every memory cell unchanged, and a tick
\* that executes ST, STI or STR changes at most one cell.
C19_OnlyStoresWriteMemory ==
    Ticked =>
        /\ op.tag \notin StoreOps => ChangedCells = {}
        /\ op.tag \in StoreOps => Cardinality(ChangedCells) <= 1

C19_Witness ==
    /\ Ticked
    /\ op.tag = "OpStr"
    /\ op.offset # 0
    /\ Cardinality(ChangedCells) = 1
    /\ preReg[op.base_r] \notin ChangedCells

\* the step executed GETC and the read failed
GetcFailed ==
    Ticked /\ op.tag = "OpTrap" /\ op.trap_vector = 32 /\ ret = "Io"

\* C20: when GETC fetched at A fails, R0, the flags and memory keep their
\* values (R1..R6 too), but the PC and R7 have both become (A+1) mod 65536.
C20_GetcFailureNotStatePreserving ==
    GetcFailed =>
        /\ \A i \in (0..6) \cup {R_COND} : reg[i] = preReg[i]
        /\ MemSameExcept({})
        /\ reg[R_PC] = (A + 1) % 65536
        /\ reg[R7] = (A + 1) % 65536
        /\ io = <<IoCall("getc", << >>, FALSE)>>

C20_Witness ==
    /\ GetcFailed
    /\ preReg[R0] = 16384
    /\ reg[R0] = 16384
    /\ preReg[R7] = 12293
    /\ reg[R7] = 12289
    /\ reg[R_PC] = 12289
    /\ preReg[R_PC] = 12288

====
